---- MODULE Spec2Model ----
(***************************************************************************)
(* Bullpen Management Simulator: the /recommend serving path.              *)
(*                                                                         *)
(* The model covers the request schemas (api/schemas.py), the handler      *)
(* (api/main.py), the domain records (bms/domain.py), the feature builder  *)
(* (bms/features.py) and the model wrapper (bms/model_expected_runs.py).   *)
(* bms/recommender.py is not part of the available sources; the engine     *)
(* (BullpenRecommender.recommend, the penalty policy, the ranking) is      *)
(* modelled from the design document, sections 4.3 and 4.4.                *)
(*                                                                         *)
(* Scores are fixed-point integers in hundredths of a run; the leverage    *)
(* proxy is in tenths (0.7 -> 7, 0.6 -> 6, 0.5 -> 5).                       *)
(***************************************************************************)
EXTENDS Integers, Sequences, FiniteSets, TLC

VARIABLES
    pipe,       \* MODEL.pipe: NoPipe, or the id of the fitted pipeline loaded
    loads,      \* number of ExpectedRunsModel.load calls after startup
    pc,         \* position of the request: "idle", "scoring", "done"
    via,        \* "api" (POST /recommend) or "direct" (RECO.recommend called)
    state,      \* the GameState of the request, as a 0/1-element sequence
    bullpen,    \* the list of Reliever of the request
    scored,     \* per candidate index: <<>> or <<ScoredCandidate>>
    used,       \* per candidate index: the pipeline that produced its score
    calls,      \* number of scorer calls made for this request
    outcome,    \* "" while running, "ok", or the name of the error raised
    result,     \* the dict returned by RECO.recommend, 0/1-element sequence
    response    \* the RecommendOut returned by the handler, 0/1-element seq.

vars == <<pipe, loads, pc, via, state, bullpen, scored, used, calls,
          outcome, result, response>>

----------------------------------------------------------------------------
(* Bounds of the model *)

MaxBullpen == 2
MaxLoads == 1

----------------------------------------------------------------------------
(* Values *)

NoPipe == 0

Abs(x) == IF x < 0 THEN 0 - x ELSE x

Clip(x, lo, hi) == IF x < lo THEN lo ELSE IF x > hi THEN hi ELSE x

Bool2Int(b) == IF b THEN 1 ELSE 0

Runners == {"---", "1--", "-2-", "--3", "12-", "1-3", "-23", "123"}

RUNNER_MAP ==
    [r \in Runners |->
        CASE r = "---" -> 0
          [] r \in {"1--", "-2-", "--3"} -> 1
          [] r \in {"12-", "1-3", "-23"} -> 2
          [] OTHER -> 3]

\* Lexicographic order of the identifiers used in the model.
IdOrd == [i \in {"A", "B"} |-> IF i = "A" THEN 1 ELSE 2]

\* GameState record (frozen dataclass, no constructor-time checks).
GameState(o, r, i, sd, h, p, b, hint) ==
    [outs |-> o, runners |-> r, inning |-> i, score_diff |-> sd, home |-> h,
     park_id |-> p, batter_segment |-> b, leverage_hint |-> hint]

\* Reliever record (frozen dataclass, no constructor-time checks).
Reliever(i, t, r, p, a) ==
    [reliever_id |-> i, throws |-> t, rest_days |-> r,
     pitches_last_outing |-> p, available |-> a]

\* Inputs of the model: outs 3 and batter_segment 4 break the data-model
\* invariants, rest_days -1 breaks the candidate's.
OutsSegmentValues == {<<1, 2>>, <<3, 2>>, <<1, 4>>}
RestPitchValues == {<<0, 25>>, <<0, 10>>, <<3, 10>>}
ThrowsOf == [i \in {"A", "B"} |-> IF i = "A" THEN "R" ELSE "L"]

\* leverage_hint: <<>> is None, <<21>> a leverage index of 2.1 (in tenths).
\* The last situation is early and lopsided with two runners on.
GameStates ==
    {GameState(ob[1], "-2-", 8, 1, TRUE, 3, ob[2], <<>>) :
        ob \in OutsSegmentValues}
    \cup {GameState(1, "-2-", 8, 1, TRUE, 3, 2, <<21>>),
          GameState(1, "12-", 6, 0 - 3, TRUE, 3, 2, <<>>)}

Relievers ==
    {Reliever(i, ThrowsOf[i], rp[1], rp[2], a) :
        i \in {"A", "B"}, rp \in RestPitchValues, a \in BOOLEAN}
    \cup {Reliever("B", "L", 0 - 1, 10, TRUE)}

Bullpens == UNION {[1..n -> Relievers] : n \in 0..MaxBullpen}

----------------------------------------------------------------------------
(* api/schemas.py: request validation *)

GameStateIn(s) ==
    /\ s.outs >= 0 /\ s.outs <= 2
    /\ s.runners \in Runners
    /\ s.inning >= 1 /\ s.inning <= 12
    /\ s.park_id >= 0
    /\ s.batter_segment >= 1 /\ s.batter_segment <= 3

RelieverIn(r) ==
    /\ r.throws \in {"R", "L"}
    /\ r.rest_days >= 0 /\ r.rest_days <= 5
    /\ r.pitches_last_outing >= 0 /\ r.pitches_last_outing <= 60

\* RecommendIn with a minimum length on the bullpen list.
RecommendInMinLength(s, b) ==
    /\ GameStateIn(s)
    /\ Len(b) >= 1
    /\ \A k \in 1..Len(b) : RelieverIn(b[k])

\* GameState(**state_in.model_dump()): GameStateIn declares no leverage_hint,
\* so the GameState built by the handler has the default, None.
GameStateFromPayload(s) == [s EXCEPT !.leverage_hint = <<>>]

\* bullpen: List[RelieverIn] has no minimum length and no uniqueness check.
RecommendIn(s, b) ==
    /\ GameStateIn(s)
    /\ \A k \in 1..Len(b) : RelieverIn(b[k])

----------------------------------------------------------------------------
(* bms/features.py *)

\* One row of feature_df_from_events.
feature_df_from_events(row) ==
    LET outs == Clip(row.outs, 0, 2)
        runners_on == IF row.runners \in Runners THEN RUNNER_MAP[row.runners]
                      ELSE 0
        close_game == Bool2Int(Abs(row.score_diff) <= 1)
        late_inning == Bool2Int(row.inning >= 7)
    IN  [outs |-> outs,
         runners_on |-> runners_on,
         inning |-> row.inning,
         close_game |-> close_game,
         late_inning |-> late_inning,
         platoon |-> row.platoon,
         rest_days |-> Clip(row.rest_days, 0, 5),
         fatigued |-> Bool2Int(row.pitches_last_outing > 20),
         home |-> row.home,
         park_id |-> row.park_id,
         batter_segment |-> row.batter_segment,
         leverage_proxy |-> late_inning * 7 + close_game * 6
                            + Bool2Int(runners_on >= 2) * 5]

----------------------------------------------------------------------------
(* bms/model_expected_runs.py *)

\* The fitted pipelines an artefact may hold.  The regressor is a black box
\* for the engine; each pipeline here is a deterministic function of the
\* feature row, given by its weights.
\*   1: fatigue lowers the prediction by 25, nothing else matters;
\*   2: wide spread over rest days, platoon advantage lowers by 3.
PIPELINES ==
    <<[bias |-> 60, rest |-> 0, fat |-> 0 - 25, plat |-> 0],
      [bias |-> 2000, rest |-> 0 - 500, fat |-> 0, plat |-> 0 - 3]>>

PipeIds == 1..Len(PIPELINES)

\* self.pipe.predict(X) for one row.
PipePredict(p, X) ==
    LET w == PIPELINES[p]
    IN  w.bias + w.rest * X.rest_days + w.fat * X.fatigued
        + w.plat * X.platoon

\* predict whose value drifts with the number of calls already made.
predictStateful(p, X) ==
    IF p = NoPipe THEN [error |-> "AssertionError", value |-> 0]
    ELSE [error |-> "", value |-> PipePredict(p, X) + calls]

\* ExpectedRunsModel.predict: the assert, then the pipeline's prediction.
predict(p, X) ==
    IF p = NoPipe THEN [error |-> "AssertionError", value |-> 0]
    ELSE [error |-> "", value |-> PipePredict(p, X)]

----------------------------------------------------------------------------
(* Penalty policy (design document, section 4.3) *)

LARGE_PENALTY == 1000
OVERUSE_PENALTY == 25
OVERUSE_THRESHOLD == 20

Overused(c) == c.rest_days = 0 /\ c.pitches_last_outing > OVERUSE_THRESHOLD

\* apply that stops at the first rule that fires.
PenaltyPolicyApplyFirstOnly(raw, c) ==
    IF ~c.available
    THEN [penalized |-> raw + LARGE_PENALTY, reasons |-> <<"unavailable">>]
    ELSE IF Overused(c)
    THEN [penalized |-> raw + OVERUSE_PENALTY, reasons |-> <<"overused">>]
    ELSE [penalized |-> raw, reasons |-> <<>>]

\* apply(raw_score, candidate) -> (penalized_score, reasons): the rules are
\* evaluated one after the other and their penalties add up.
PenaltyPolicyApply(raw, c) ==
    LET r1 == IF ~c.available THEN <<"unavailable">> ELSE <<>>
        p1 == IF ~c.available THEN LARGE_PENALTY ELSE 0
        r2 == IF Overused(c) THEN <<"overused">> ELSE <<>>
        p2 == IF Overused(c) THEN OVERUSE_PENALTY ELSE 0
    IN  [penalized |-> raw + p1 + p2, reasons |-> r1 \o r2]

----------------------------------------------------------------------------
(* Recommender engine (design document, section 4.4) *)

\* Invariants of the data model, section 3.
ValidSituation(s) ==
    /\ s.outs >= 0 /\ s.outs <= 2
    /\ s.runners \in Runners
    /\ s.inning >= 1
    /\ s.park_id >= 0
    /\ s.batter_segment \in {1, 2, 3}

\* Validation that accepts every candidate.
ValidCandidateAny(c) == c.throws \in {"R", "L"}

ValidCandidate(c) ==
    /\ c.throws \in {"R", "L"}
    /\ c.rest_days >= 0
    /\ c.pitches_last_outing >= 0

\* Readiness check that always passes.
is_readyAlways(p) == p \in {NoPipe} \cup PipeIds

\* Scorer.is_ready(): a pipeline has been loaded or fitted.
is_ready(p) == p # NoPipe

\* Platoon lookup: the batters expected for a segment, by handedness; the
\* pitcher has the advantage when throwing from the same side.
ExpectedBatterHand == [seg \in {1, 2, 3} |-> IF seg = 1 THEN "L" ELSE "R"]

PlatoonAdvantage(throws, seg) ==
    IF seg \in {1, 2, 3} /\ ExpectedBatterHand[seg] = throws THEN 1 ELSE 0

\* The event row of one (situation, candidate) pair handed to the encoder.
EventRow(s, c) ==
    [outs |-> s.outs, runners |-> s.runners, inning |-> s.inning,
     score_diff |-> s.score_diff,
     platoon |-> PlatoonAdvantage(c.throws, s.batter_segment),
     rest_days |-> c.rest_days,
     pitches_last_outing |-> c.pitches_last_outing,
     home |-> Bool2Int(s.home), park_id |-> s.park_id,
     batter_segment |-> s.batter_segment]

\* encode -> score -> penalize for one candidate; p is the pipeline the
\* scorer holds when it is called.
ScoreOne(p, s, c) ==
    LET X == feature_df_from_events(EventRow(s, c))
        y == predict(p, X)
        pen == PenaltyPolicyApply(y.value, c)
    IN  [error |-> y.error,
         entry |-> [reliever_id |-> c.reliever_id,
                    expected_runs |-> y.value,
                    expected_runs_penalised |-> pen.penalized,
                    reasons |-> pen.reasons,
                    features |-> X]]

\* Candidate i is ranked strictly before candidate j: lower penalized score,
\* then more rest days, then the smaller identifier.
RankedBefore(b, sc, i, j) ==
    LET pi == sc[i].expected_runs_penalised
        pj == sc[j].expected_runs_penalised
    IN  \/ pi < pj
        \/ pi = pj /\ b[i].rest_days > b[j].rest_days
        \/ /\ pi = pj
           /\ b[i].rest_days = b[j].rest_days
           /\ IdOrd[b[i].reliever_id] < IdOrd[b[j].reliever_id]

\* Stable insertion of index i into the sorted index sequence order.
InsertRanked(order, i, b, sc) ==
    LET later == {k \in 1..Len(order) : RankedBefore(b, sc, i, order[k])}
        pos == IF later = {} THEN Len(order) + 1
               ELSE CHOOSE k \in later : \A m \in later : k <= m
    IN  SubSeq(order, 1, pos - 1) \o <<i>> \o SubSeq(order, pos, Len(order))

RECURSIVE RankUpTo(_, _, _)
RankUpTo(n, b, sc) ==
    IF n = 0 THEN <<>>
    ELSE InsertRanked(RankUpTo(n - 1, b, sc), n, b, sc)

\* The candidate indices sorted ascending by penalized score (stable sort).
Ranking(b, sc) == RankUpTo(Len(b), b, sc)

HasReason(e, tag) == \E k \in 1..Len(e.reasons) : e.reasons[k] = tag

\* The result of recommend, from the scored candidates sc (in submission
\* order).  The head of the ranking is the recommendation.
BuildResult(s, b, sc) ==
    LET order == Ranking(b, sc)
        ranked == [k \in 1..Len(order) |-> sc[order[k]]]
    IN  [recommendation |-> ranked[1],
         candidates |-> ranked,
         explanations |-> sc,
         state |-> s,
         all_unavailable |-> HasReason(ranked[1], "unavailable")]

----------------------------------------------------------------------------
(* api/schemas.py and api/main.py: the response *)

CandidateOut(c) ==
    [reliever_id |-> c.reliever_id,
     expected_runs |-> c.expected_runs,
     expected_runs_penalised |-> c.expected_runs_penalised]

\* RecommendOut that returns the candidates in descending order.
RecommendOutReversed(res) ==
    [recommendation |-> res.recommendation,
     candidates |-> [k \in 1..Len(res.candidates) |->
                        CandidateOut(res.candidates[Len(res.candidates) + 1 - k])],
     explanations |-> res.explanations,
     state |-> res.state]

\* RecommendOut(**result): the four declared fields; any other key of the
\* result is ignored by the response model.
RecommendOut(res) ==
    [recommendation |-> res.recommendation,
     candidates |-> [k \in 1..Len(res.candidates) |->
                        CandidateOut(res.candidates[k])],
     explanations |-> res.explanations,
     state |-> res.state]

----------------------------------------------------------------------------
(* State machine *)

\* main.py, lines 31-35: the model is loaded at startup if the artefact
\* exists, and the recommender is built around it.
Init ==
    /\ pipe \in {NoPipe} \cup PipeIds
    /\ loads = 0
    /\ pc = "idle"
    /\ via = ""
    /\ state = <<>>
    /\ bullpen = <<>>
    /\ scored = <<>>
    /\ used = <<>>
    /\ calls = 0
    /\ outcome = ""
    /\ result = <<>>
    /\ response = <<>>

\* ExpectedRunsModel.load on the shared MODEL: self.pipe = joblib.load(path).
load(p) ==
    /\ loads < MaxLoads
    /\ pipe' = p
    /\ loads' = loads + 1
    /\ UNCHANGED <<pc, via, state, bullpen, scored, used, calls, outcome,
                   result, response>>

Fail(err) ==
    /\ pc' = "done"
    /\ outcome' = err
    /\ UNCHANGED <<scored, used, calls, result, response>>

\* BullpenRecommender.recommend up to the first scorer call: the empty
\* roster check, the validation of the inputs, the readiness check.
EngineBegin(s, b) ==
    /\ state' = <<s>>
    /\ bullpen' = b
    /\ IF b = <<>> THEN Fail("EmptyRosterError")
       ELSE IF ~ValidSituation(s) THEN Fail("InvalidSituationError")
       ELSE IF \E k \in 1..Len(b) : ~ValidCandidate(b[k])
            THEN Fail("InvalidCandidateError")
       ELSE IF ~is_ready(pipe) THEN Fail("ModelNotReadyError")
       ELSE /\ pc' = "scoring"
            /\ scored' = [k \in 1..Len(b) |-> <<>>]
            /\ used' = [k \in 1..Len(b) |-> NoPipe]
            /\ UNCHANGED <<calls, outcome, result, response>>

\* POST /recommend: the payload is validated against RecommendIn, the domain
\* objects are built and RECO.recommend is called.
recommend ==
    /\ pc = "idle"
    /\ via' = "api"
    /\ \E s \in GameStates, b \in Bullpens :
           IF ~RecommendIn(s, b)
           THEN /\ state' = <<GameStateFromPayload(s)>>
                /\ bullpen' = b
                /\ Fail("RequestValidationError")
           ELSE EngineBegin(GameStateFromPayload(s), b)
    /\ UNCHANGED <<pipe, loads>>

\* RECO.recommend called with domain objects built by the caller.
DirectRecommend ==
    /\ pc = "idle"
    /\ via' = "direct"
    /\ \E s \in GameStates, b \in Bullpens : EngineBegin(s, b)
    /\ UNCHANGED <<pipe, loads>>

\* The pipeline of one candidate; the candidates may be processed in any
\* order.  The scorer is called with the pipe the shared model holds now.
ScoreCandidate(i) ==
    /\ pc = "scoring"
    /\ i \in 1..Len(bullpen)
    /\ scored[i] = <<>>
    /\ LET r == ScoreOne(pipe, state[1], bullpen[i])
       IN  /\ calls' = calls + 1
           /\ IF r.error # ""
              THEN /\ pc' = "done"
                   /\ outcome' = r.error
                   /\ UNCHANGED <<scored, used>>
              ELSE /\ scored' = [scored EXCEPT ![i] = <<r.entry>>]
                   /\ used' = [used EXCEPT ![i] = pipe]
                   /\ UNCHANGED <<pc, outcome>>
    /\ UNCHANGED <<pipe, loads, via, state, bullpen, result, response>>

\* Aggregate, rank, pick the head, build the result; the handler converts
\* the candidates and returns RecommendOut(**result).
Finish ==
    /\ pc = "scoring"
    /\ \A k \in 1..Len(bullpen) : scored[k] # <<>>
    /\ LET sc == [k \in 1..Len(bullpen) |-> scored[k][1]]
           res == BuildResult(state[1], bullpen, sc)
       IN  /\ result' = <<res>>
           /\ response' = IF via = "api" THEN <<RecommendOut(res)>> ELSE <<>>
    /\ pc' = "done"
    /\ outcome' = "ok"
    /\ UNCHANGED <<pipe, loads, via, state, bullpen, scored, used, calls>>

\* The request is over; its objects are discarded.
Discard ==
    /\ pc = "done"
    /\ pc' = "idle"
    /\ via' = ""
    /\ state' = <<>>
    /\ bullpen' = <<>>
    /\ scored' = <<>>
    /\ used' = <<>>
    /\ calls' = 0
    /\ outcome' = ""
    /\ result' = <<>>
    /\ response' = <<>>
    /\ UNCHANGED <<pipe, loads>>

Next ==
    \/ \E p \in PipeIds : load(p)
    \/ recommend
    \/ DirectRecommend
    \/ \E i \in 1..MaxBullpen : ScoreCandidate(i)
    \/ Finish
    \/ Discard

Spec == Init /\ [][Next]_vars

TypeOK ==
    /\ pipe \in {NoPipe} \cup PipeIds
    /\ pc \in {"idle", "scoring", "done"}
    /\ calls \in 0..MaxBullpen

----------------------------------------------------------------------------
(* Properties *)

Ok == pc = "done" /\ outcome = "ok"

N == Len(bullpen)

\* RECO.recommend was called for the current request: directly, or by the
\* handler after the payload passed the schema.
EngineInvoked == via = "direct" \/ (via = "api" /\ RecommendIn(state[1], bullpen))

\* The invariants of the data model, as the claims state them.
SituationInvariant(s) ==
    /\ s.outs \in 0..2
    /\ s.batter_segment \in {1, 2, 3}
    /\ s.inning >= 1
    /\ s.park_id >= 0
    /\ s.runners \in Runners

CandidateInvariant(c) ==
    /\ c.rest_days >= 0
    /\ c.pitches_last_outing >= 0
    /\ c.throws \in {"R", "L"}

AllValid(s, b) ==
    SituationInvariant(s) /\ \A k \in 1..Len(b) : CandidateInvariant(b[k])

\* pi maps the positions of ranking r to the submission indices.
IsRankingOf(pi, r, sc) == \A k \in 1..Len(r) : r[k] = sc[pi[k]]

\* C1: an unavailable candidate always has a strictly higher penalized score
\* than an available one of the same call, whatever the raw scores, and the
\* recommendation is an available candidate whenever there is one.
C1_PenaltyDominance ==
    Ok =>
        LET sc == result[1].explanations
        IN  /\ \A i, j \in 1..N :
                (bullpen[i].available /\ ~bullpen[j].available)
                    => sc[j].expected_runs_penalised
                           > sc[i].expected_runs_penalised
            /\ (\E i \in 1..N : bullpen[i].available)
                   => ~HasReason(result[1].recommendation, "unavailable")

\* C2: the ranking has exactly one entry per submitted candidate, is ascending
\* by penalized score, and the recommendation is its first entry; the same
\* holds of the candidates list of the response.
C2_RankedAscending ==
    Ok =>
        LET res == result[1]
            r == res.candidates
        IN  /\ Len(r) = N
            /\ \E pi \in Permutations(1..N) :
                   /\ IsRankingOf(pi, r, res.explanations)
                   /\ \A k \in 1..N :
                          r[k].reliever_id = bullpen[pi[k]].reliever_id
            /\ \A k \in 1..(N - 1) :
                   r[k].expected_runs_penalised
                       <= r[k + 1].expected_runs_penalised
            /\ res.recommendation = r[1]
            /\ via = "api" =>
                   LET out == response[1]
                   IN  /\ Len(out.candidates) = N
                       /\ \A k \in 1..N :
                              out.candidates[k] = CandidateOut(r[k])
                       /\ \A k \in 1..(N - 1) :
                              out.candidates[k].expected_runs_penalised
                                  <= out.candidates[k + 1].expected_runs_penalised
                       /\ CandidateOut(out.recommendation) = out.candidates[1]

\* The sort acted: the second submitted candidate is ranked first, on a
\* strictly lower penalized score, in a response of the handler.
C2_Witness ==
    /\ Ok /\ via = "api" /\ N = 2
    /\ response[1].candidates[1].reliever_id = bullpen[2].reliever_id
    /\ response[1].candidates[1].expected_runs_penalised
           < response[1].candidates[2].expected_runs_penalised
    /\ bullpen[1].reliever_id # bullpen[2].reliever_id

C4_EmptyRosterRejected ==
    (pc = "done" /\ bullpen = <<>>
        /\ (via = "direct" \/ (via = "api" /\ GameStateIn(state[1]))))
    => /\ outcome = "EmptyRosterError"
       /\ calls = 0
       /\ result = <<>>
       /\ response = <<>>

\* An empty bullpen list posted to /recommend was rejected by the engine.
C4_Witness ==
    /\ pc = "done" /\ via = "api" /\ bullpen = <<>>
    /\ outcome = "EmptyRosterError" /\ calls = 0

\* C5: all_unavailable is set exactly when every submitted candidate is
\* unavailable, which is exactly when the head carries "unavailable"; a head
\* is returned in either case; the flag is part of what the caller receives.
C5_AllUnavailableFlag ==
    Ok =>
        /\ result[1].all_unavailable
               <=> (\A i \in 1..N : ~bullpen[i].available)
        /\ result[1].all_unavailable
               <=> HasReason(result[1].recommendation, "unavailable")
        /\ via = "api" => "all_unavailable" \in DOMAIN response[1]

C9_PenaltiesAccumulate ==
    \A i \in 1..Len(scored) :
        scored[i] # <<>> =>
            LET e == scored[i][1]
                c == bullpen[i]
                over == c.rest_days = 0
                        /\ c.pitches_last_outing > OVERUSE_THRESHOLD
            IN  /\ HasReason(e, "unavailable") <=> ~c.available
                /\ HasReason(e, "overused") <=> over
                /\ e.reasons =
                       (IF ~c.available THEN <<"unavailable">> ELSE <<>>)
                       \o (IF over THEN <<"overused">> ELSE <<>>)
                /\ e.expected_runs_penalised =
                       e.expected_runs
                       + (IF HasReason(e, "unavailable") THEN LARGE_PENALTY
                          ELSE 0)
                       + (IF HasReason(e, "overused") THEN OVERUSE_PENALTY
                          ELSE 0)
                /\ (e.expected_runs_penalised = e.expected_runs)
                       <=> (e.reasons = <<>>)

\* A candidate both unavailable and overused was penalized.
C9_Witness ==
    \E i \in 1..Len(scored) :
        /\ scored[i] # <<>>
        /\ scored[i][1].reasons = <<"unavailable", "overused">>

ExpectedLeverage(s) ==
    IF s.leverage_hint # <<>> THEN s.leverage_hint[1]
    ELSE (IF s.inning >= 7 THEN 7 ELSE 0)
         + (IF s.score_diff \in {0 - 1, 0, 1} THEN 6 ELSE 0)
         + (IF s.runners \in {"12-", "1-3", "-23", "123"} THEN 5 ELSE 0)

\* C11: the leverage_proxy of the feature vector is the situation's hint when
\* a hint is present and the computed proxy otherwise, in the features of
\* every scored candidate (serving) and in the row the batch entry point
\* builds for the same situation and candidate.
C11_LeverageProxy ==
    (pc = "scoring" \/ Ok) =>
        /\ \A i \in 1..Len(scored) :
               scored[i] # <<>> =>
                   scored[i][1].features.leverage_proxy
                       = ExpectedLeverage(state[1])
        /\ \A i \in 1..Len(bullpen) :
               feature_df_from_events(EventRow(state[1], bullpen[i]))
                   .leverage_proxy = ExpectedLeverage(state[1])

\* C11 without the hint: with no hint, serving and batch features carry the
\* computed proxy.
C11_ComputedProxyWithoutHint ==
    ((pc = "scoring" \/ Ok) /\ state[1].leverage_hint = <<>>) =>
        /\ \A i \in 1..Len(scored) :
               scored[i] # <<>> =>
                   scored[i][1].features.leverage_proxy
                       = ExpectedLeverage(state[1])
        /\ \A i \in 1..Len(bullpen) :
               feature_df_from_events(EventRow(state[1], bullpen[i]))
                   .leverage_proxy = ExpectedLeverage(state[1])

====
